---------------------------- MODULE Spec2Model ----------------------------
(***************************************************************************)
(* Trajectory reconstruction pipeline of data_tools.py: distance-based     *)
(* resampling, time differencing and heading estimation over a DataFrame.  *)
(*                                                                         *)
(* A DataFrame is a record [index, cols]: index is the sequence of row     *)
(* labels, cols maps each column name to its sequence of cells.  A numeric *)
(* cell is <<n>> (the number n) or NaN == <<>> (missing value).  Lengths   *)
(* (coordinates, min_distance) are integers in units of half a metre,      *)
(* times are integer seconds, angles are integers in thousandths of a      *)
(* degree.  A yaw rate is a reduced fraction <<n, d>>, with <<1, 0>> and   *)
(* <<-1, 0>> for the infinities.  The result of a smoothing filter is the  *)
(* term <<method, column, row>>, a projected coordinate is the term        *)
(* <<"utm", axis, lon, lat>>.  The stages are modelled one by one, in the  *)
(* sequence filter - time - heading - yaw rate, and as the loop body of    *)
(* main in maon_5.py.                                                      *)
(***************************************************************************)
EXTENDS Integers, Sequences, FiniteSets, TLC

VARIABLES df, config, calls, hist, retained_indices, raised,
          processed_suffixes, saved

vars == <<df, config, calls, hist, retained_indices, raised,
          processed_suffixes, saved>>

(* ------------------------------ bounds -------------------------------- *)
MaxLen   == 3   \* longest input trace
MaxCoord == 2   \* planar coordinates range over 0..MaxCoord
MaxDist  == 3   \* min_distance ranges over -1..MaxDist
MaxTime  == 3   \* timestamps range over 0..MaxTime seconds
MaxCalls == 2   \* how often a stage is applied to its own output

(* --------------------------- numeric cells ---------------------------- *)
NaN == <<>>

Num(n) == <<n>>

IsNaN(v) == v = NaN

\* float subtraction: NaN is absorbing
Sub(a, b) == IF IsNaN(a) \/ IsNaN(b) THEN NaN ELSE Num(a[1] - b[1])

\* variant: missing first difference filled with 0
DiffZeroFirst(s) ==
    [i \in 1..Len(s) |-> IF i = 1 THEN Num(0) ELSE Sub(s[i], s[i - 1])]

\* variant: operands of the difference swapped
DiffSwapped(s) ==
    [i \in 1..Len(s) |-> IF i = 1 THEN NaN ELSE Sub(s[i - 1], s[i])]

\* pandas Series.diff(): first element missing, then s[i] - s[i-1]
Diff(s) == [i \in 1..Len(s) |-> IF i = 1 THEN NaN ELSE Sub(s[i], s[i - 1])]

(* ----------------------------- DataFrame ------------------------------ *)
RangeIndex(n) == [k \in 1..n |-> k - 1]

NRows(d) == Len(d.index)

\* DataFrame.empty: some axis has length 0
Empty(d) == NRows(d) = 0 \/ DOMAIN d.cols = {}

HasCol(d, c) == c \in DOMAIN d.cols

\* df[c] = v
SetCol(d, c, v) == [d EXCEPT !.cols = (c :> v) @@ d.cols]

\* variant: the selection is not applied, every row stays
IlocAll(d, positions) == d

\* df.iloc[positions] for a list of 0-based positions
Iloc(d, positions) ==
    [index |-> [k \in 1..Len(positions) |-> d.index[positions[k] + 1]],
     cols  |-> [c \in DOMAIN d.cols |->
                  [k \in 1..Len(positions) |-> d.cols[c][positions[k] + 1]]]]

\* variant: the labels of the selected rows are kept
ResetIndexKeep(d) == d

\* df.reset_index(drop=True): fresh 0..k-1 labels, old labels discarded
ResetIndexDrop(d) == [d EXCEPT !.index = RangeIndex(NRows(d))]

(* ------------------ data_filter_points_by_distance -------------------- *)
\* the float held by a cell.  A smoothed cell <<method, col, i>> and a
\* projected cell <<"utm", axis, lon, lat>> are read for signals that are
\* constant over the rows: both filters return such a signal as it is, and
\* the projection maps all rows to one position
RECURSIVE FloatOf(_, _)
FloatOf(d, cell) ==
    IF Len(cell) = 3 THEN FloatOf(d, d.cols[cell[2]][cell[3]])
    ELSE IF Len(cell) = 4
         THEN FloatOf(d, IF cell[2] = "x" THEN cell[3] ELSE cell[4])
         ELSE cell

\* df[[x_col, y_col]].to_numpy(): one <<x, y>> pair per row
Coords(d, x_col, y_col) ==
    [i \in 1..NRows(d) |->
        <<FloatOf(d, d.cols[x_col][i]), FloatOf(d, d.cols[y_col][i])>>]

\* square of np.linalg.norm(p - q); NaN when a coordinate is missing
SqNorm(p, q) ==
    LET dx == Sub(p[1], q[1])
        dy == Sub(p[2], q[2])
    IN  IF IsNaN(dx) \/ IsNaN(dy) THEN NaN
        ELSE Num(dx[1] * dx[1] + dy[1] * dy[1])

\* variant: the squared distance compared with min_distance itself
DistanceGEUnsquared(sq, min_distance) ==
    /\ ~IsNaN(sq)
    /\ sq[1] >= min_distance

\* variant: distance > min_distance
DistanceGEStrict(sq, min_distance) ==
    /\ ~IsNaN(sq)
    /\ \/ min_distance < 0
       \/ sq[1] > min_distance * min_distance

\* variant: a non-positive min_distance is never reached
DistanceGEPositiveOnly(sq, min_distance) ==
    /\ ~IsNaN(sq)
    /\ min_distance > 0
    /\ sq[1] >= min_distance * min_distance

\* distance >= min_distance for distance = sqrt(sq); any comparison with
\* NaN is False
DistanceGE(sq, min_distance) ==
    /\ ~IsNaN(sq)
    /\ \/ min_distance <= 0
       \/ sq[1] >= min_distance * min_distance

\* variant: the reference point is the preceding raw sample
RECURSIVE FilterLoopRaw(_, _, _, _, _)
FilterLoopRaw(coords, i, retained, last_retained_point, min_distance) ==
    IF i >= Len(coords) THEN retained
    ELSE IF DistanceGE(SqNorm(coords[i + 1], last_retained_point), min_distance)
         THEN FilterLoopRaw(coords, i + 1, Append(retained, i),
                            coords[i + 1], min_distance)
         ELSE FilterLoopRaw(coords, i + 1, retained,
                            coords[i + 1], min_distance)

\* the for-loop of lines 159-163, from 0-based position i on
RECURSIVE FilterLoop(_, _, _, _, _)
FilterLoop(coords, i, retained, last_retained_point, min_distance) ==
    IF i >= Len(coords) THEN retained
    ELSE IF DistanceGE(SqNorm(coords[i + 1], last_retained_point), min_distance)
         THEN FilterLoop(coords, i + 1, Append(retained, i),
                         coords[i + 1], min_distance)
         ELSE FilterLoop(coords, i + 1, retained,
                         last_retained_point, min_distance)

\* variant: the list of retained indices starts empty
RetainedIndicesNoFirst(coords, min_distance) ==
    FilterLoop(coords, 1, <<>>, coords[1], min_distance)

\* lines 155-163: retained_indices after the loop
RetainedIndices(coords, min_distance) ==
    FilterLoop(coords, 1, <<0>>, coords[1], min_distance)

\* variant: the min_distance column is written before the emptiness check
FilterResultTagFirst(d, cfg) ==
    LET kept == IF Empty(d) THEN <<>>
                ELSE RetainedIndices(Coords(d, cfg.x_col, cfg.y_col),
                                     cfg.min_distance)
        out  == ResetIndexDrop(Iloc(d, kept))
    IN  SetCol(out, "min_distance",
               [k \in 1..NRows(out) |-> Num(cfg.min_distance)])

\* the returned DataFrame when no exception is raised
FilterResult(d, cfg) ==
    IF Empty(d) THEN d
    ELSE LET kept == RetainedIndices(Coords(d, cfg.x_col, cfg.y_col),
                                     cfg.min_distance)
             out  == ResetIndexDrop(Iloc(d, kept))
         IN  SetCol(out, "min_distance",
                    [k \in 1..NRows(out) |-> Num(cfg.min_distance)])

\* variant: a missing coordinate column is not reported, the frame is
\* returned as it came
FilterSilentOnMissing ==
    /\ UNCHANGED <<processed_suffixes, saved>>
    /\ raised = "none"
    /\ calls < MaxCalls
    /\ calls' = calls + 1
    /\ IF ~Empty(df) /\ (~HasCol(df, config.x_col) \/ ~HasCol(df, config.y_col))
       THEN /\ hist' = Append(hist, df)
            /\ UNCHANGED <<df, raised, retained_indices>>
       ELSE /\ df' = FilterResult(df, config)
            /\ hist' = Append(hist, df')
            /\ retained_indices' =
                  IF Empty(df) THEN <<>>
                  ELSE RetainedIndices(Coords(df, config.x_col, config.y_col),
                                       config.min_distance)
            /\ UNCHANGED raised
    /\ UNCHANGED config

data_filter_points_by_distance ==
    /\ UNCHANGED <<processed_suffixes, saved>>
    /\ raised = "none"
    /\ calls < MaxCalls
    /\ calls' = calls + 1
    /\ IF ~Empty(df) /\ (~HasCol(df, config.x_col) \/ ~HasCol(df, config.y_col))
       THEN /\ raised' = "ValueError"
            /\ UNCHANGED <<df, hist, retained_indices>>
       ELSE /\ df' = FilterResult(df, config)
            /\ hist' = Append(hist, df')
            /\ retained_indices' =
                  IF Empty(df) THEN <<>>
                  ELSE RetainedIndices(Coords(df, config.x_col, config.y_col),
                                       config.min_distance)
            /\ UNCHANGED raised
    /\ UNCHANGED config


(* --------------------- parse_time_and_compute_dt ---------------------- *)
\* the digit characters of a timestamp text
DigitChar == <<"0", "1", "2", "3", "4", "5", "6", "7", "8", "9">>

\* a timestamp text is parseable when it is a digit; it then denotes that
\* many seconds after midnight
Parseable(text) == \E n \in 0..9 : DigitChar[n + 1] = text

\* pd.to_datetime on one parseable cell
ToDatetime(text) == Num(CHOOSE n \in 0..9 : DigitChar[n + 1] = text)

\* variant: an unparseable timestamp becomes a missing time (errors="coerce")
ParseTimeCoerce ==
    /\ UNCHANGED <<processed_suffixes, saved>>
    /\ raised = "none"
    /\ calls = 0
    /\ calls' = calls + 1
    /\ LET datetime_col == config.date_column
       IN  IF ~HasCol(df, datetime_col)
           THEN /\ raised' = "KeyError"
                /\ UNCHANGED <<df, hist>>
           ELSE LET parsed == [i \in 1..NRows(df) |->
                                  IF Parseable(df.cols[datetime_col][i])
                                  THEN ToDatetime(df.cols[datetime_col][i])
                                  ELSE NaN]
                IN  /\ df' = SetCol(SetCol(df, datetime_col, parsed),
                                    "dt", Diff(parsed))
                    /\ hist' = Append(hist, df')
                    /\ UNCHANGED raised
    /\ UNCHANGED <<config, retained_indices>>

parse_time_and_compute_dt ==
    /\ UNCHANGED <<processed_suffixes, saved>>
    /\ raised = "none"
    /\ calls = 0
    /\ calls' = calls + 1
    /\ LET datetime_col == config.date_column
       IN  IF ~HasCol(df, datetime_col)
           THEN /\ raised' = "KeyError"
                /\ UNCHANGED <<df, hist>>
           ELSE IF \E i \in 1..NRows(df) : ~Parseable(df.cols[datetime_col][i])
           THEN /\ raised' = "ValueError"
                /\ UNCHANGED <<df, hist>>
           ELSE LET parsed == [i \in 1..NRows(df) |->
                                  ToDatetime(df.cols[datetime_col][i])]
                IN  /\ df' = SetCol(SetCol(df, datetime_col, parsed),
                                    "dt", Diff(parsed))
                    /\ hist' = Append(hist, df')
                    /\ UNCHANGED raised
    /\ UNCHANGED <<config, retained_indices>>

(* -------------------- data_compute_heading_from_xy -------------------- *)
\* config.get(key, default)
Get(cfg, key, default) == IF key \in DOMAIN cfg THEN cfg[key] ELSE default

RECURSIVE Gcd(_, _)
Gcd(a, b) == IF b = 0 THEN a ELSE Gcd(b, a % b)

\* arctan(a / b) in thousandths of a degree for 0 <= a <= b, b > 0,
\* rounded to the nearest thousandth
ArctanOctant(a, b) ==
    LET g == Gcd(b, a)
        r == <<a \div g, b \div g>>
    IN  CASE r = <<0, 1>> -> 0
          [] r = <<1, 4>> -> 14036
          [] r = <<1, 3>> -> 18435
          [] r = <<1, 2>> -> 26565
          [] r = <<2, 3>> -> 33690
          [] r = <<3, 4>> -> 36870
          [] r = <<1, 1>> -> 45000

\* np.degrees(np.arctan2(dy, dx)) for dy >= 0: range [0, 180]
ArcTan2Upper(dy, dx) ==
    IF dx = 0 /\ dy = 0 THEN 0
    ELSE IF dx >= 0
         THEN IF dy <= dx THEN ArctanOctant(dy, dx)
              ELSE 90000 - ArctanOctant(dx, dy)
         ELSE IF dy <= -dx THEN 180000 - ArctanOctant(dy, -dx)
              ELSE 90000 + ArctanOctant(-dx, dy)

\* variant: np.arctan2(dx, dy), the operands exchanged
ArcTan2DegSwapped(dy, dx) ==
    IF IsNaN(dy) \/ IsNaN(dx) THEN NaN
    ELSE IF dx[1] >= 0 THEN Num(ArcTan2Upper(dx[1], dy[1]))
         ELSE Num(-ArcTan2Upper(-dx[1], dy[1]))

\* np.degrees(np.arctan2(dy, dx)): range [-180, 180], NaN for a NaN operand
ArcTan2Deg(dy, dx) ==
    IF IsNaN(dy) \/ IsNaN(dx) THEN NaN
    ELSE IF dy[1] >= 0 THEN Num(ArcTan2Upper(dy[1], dx[1]))
         ELSE Num(-ArcTan2Upper(-dy[1], dx[1]))

\* variant: the angle is stored as arctan2 returns it
ShiftTo360Identity(deg) == deg

\* (heading_deg + 360) % 360
ShiftTo360(deg) ==
    IF IsNaN(deg) THEN NaN ELSE Num((deg[1] + 360000) % 360000)

\* variant: the missing first heading is filled with 0
HeadingColumnFilled(d, x_col, y_col) ==
    LET dx == Diff(d.cols[x_col])
        dy == Diff(d.cols[y_col])
    IN  [i \in 1..NRows(d) |->
            IF i = 1 THEN Num(0) ELSE ShiftTo360(ArcTan2Deg(dy[i], dx[i]))]

\* lines 230-238: heading of every row from the differences of x and y
HeadingColumn(d, x_col, y_col) ==
    LET dx == Diff(d.cols[x_col])
        dy == Diff(d.cols[y_col])
    IN  [i \in 1..NRows(d) |-> ShiftTo360(ArcTan2Deg(dy[i], dx[i]))]

data_compute_heading_from_xy ==
    /\ UNCHANGED <<processed_suffixes, saved>>
    /\ raised = "none"
    /\ calls = 0
    /\ calls' = calls + 1
    /\ LET x_col == Get(config, "x_col", "x")
           y_col == Get(config, "y_col", "y")
           heading_col == Get(config, "heading_col", "heading_deg")
       IN  IF ~HasCol(df, x_col) \/ ~HasCol(df, y_col)
           THEN /\ raised' = "ValueError"
                /\ UNCHANGED <<df, hist>>
           ELSE /\ df' = SetCol(df, heading_col, HeadingColumn(df, x_col, y_col))
                /\ hist' = Append(hist, df')
                /\ UNCHANGED raised
    /\ UNCHANGED <<config, retained_indices>>


(* ----------------- data_compute_yaw_rate_from_heading ----------------- *)
Abs(n) == IF n < 0 THEN -n ELSE n

\* float results of a division: a reduced fraction <<numerator, denominator>>
\* with positive denominator, +inf, -inf, or NaN
PosInf == <<1, 0>>

NegInf == <<-1, 0>>

Frac(n, d) ==
    LET g == Gcd(Abs(n), Abs(d))
        s == IF d < 0 THEN -1 ELSE 1
    IN  <<(s * n) \div g, (s * d) \div g>>

\* variant: division by the magnitude of the divisor
DivByMagnitude(a, b) ==
    IF IsNaN(a) \/ IsNaN(b) THEN NaN
    ELSE IF b[1] = 0
         THEN IF a[1] > 0 THEN PosInf
              ELSE IF a[1] < 0 THEN NegInf ELSE NaN
         ELSE Frac(a[1], Abs(b[1]))

\* variant: a zero divisor yields 0
DivZeroGuarded(a, b) ==
    IF IsNaN(a) \/ IsNaN(b) THEN NaN
    ELSE IF b[1] = 0 THEN Frac(0, 1)
         ELSE Frac(a[1], b[1])

\* float64 division a / b of two cells: x/0 is +-inf, 0/0 and NaN operands
\* give NaN, no exception
Div(a, b) ==
    IF IsNaN(a) \/ IsNaN(b) THEN NaN
    ELSE IF b[1] = 0
         THEN IF a[1] > 0 THEN PosInf
              ELSE IF a[1] < 0 THEN NegInf ELSE NaN
         ELSE Frac(a[1], b[1])

\* variant: the raw heading difference, not wrapped
WrapDiffNone(diff) == diff

\* (heading_diff + 180) % 360 - 180
WrapDiff(diff) ==
    IF IsNaN(diff) THEN NaN
    ELSE Num(((diff[1] + 180000) % 360000) - 180000)

\* variant: the heading itself, not its difference, is divided by dt
YawRateColumnNoDiff(d, heading_col, dt_col) ==
    [i \in 1..NRows(d) |->
        Div(WrapDiff(d.cols[heading_col][i]), d.cols[dt_col][i])]

\* lines 279-287: wrapped heading difference divided by dt, row by row
YawRateColumn(d, heading_col, dt_col) ==
    LET heading_diff == Diff(d.cols[heading_col])
    IN  [i \in 1..NRows(d) |->
            Div(WrapDiff(heading_diff[i]), d.cols[dt_col][i])]

\* variant: a missing dt column is replaced by a column of ones
YawRateOutcomeDefaultDt(d, cfg) ==
    LET heading_col == Get(cfg, "heading_col", "heading_deg")
        dt_col == Get(cfg, "dt_col", "dt")
        ones == [i \in 1..NRows(d) |-> Num(1)]
        full == IF HasCol(d, dt_col) THEN d ELSE SetCol(d, dt_col, ones)
    IN  IF ~HasCol(d, heading_col)
        THEN [raised |-> "ValueError", df |-> d]
        ELSE [raised |-> "none",
              df |-> SetCol(full, "yaw_rate_deg_s",
                            YawRateColumn(full, heading_col, dt_col))]

\* what the call does to the frame d: the exception raised, the frame left
YawRateOutcome(d, cfg) ==
    LET heading_col == Get(cfg, "heading_col", "heading_deg")
        dt_col == Get(cfg, "dt_col", "dt")
    IN  IF ~HasCol(d, heading_col) \/ ~HasCol(d, dt_col)
        THEN [raised |-> "ValueError", df |-> d]
        ELSE [raised |-> "none",
              df |-> SetCol(d, "yaw_rate_deg_s",
                            YawRateColumn(d, heading_col, dt_col))]

data_compute_yaw_rate_from_heading ==
    /\ UNCHANGED <<processed_suffixes, saved>>
    /\ raised = "none"
    /\ calls <= 1
    /\ calls' = 2
    /\ LET out == YawRateOutcome(df, config)
       IN  /\ raised' = out.raised
           /\ df' = out.df
           /\ hist' = IF out.raised = "none" THEN Append(hist, out.df) ELSE hist
    /\ UNCHANGED <<config, retained_indices>>


(* --------------------- the stages run in sequence --------------------- *)
\* data_filter_points_by_distance(d, cfg): exception raised, frame returned
FilterOutcome(d, cfg) ==
    IF ~Empty(d) /\ (~HasCol(d, cfg.x_col) \/ ~HasCol(d, cfg.y_col))
    THEN [raised |-> "ValueError", df |-> d]
    ELSE [raised |-> "none", df |-> FilterResult(d, cfg)]

\* variant: the row without a time difference is dropped
ParseTimeOutcomeDropNa(d, datetime_col) ==
    IF ~HasCol(d, datetime_col)
    THEN [raised |-> "KeyError", df |-> d]
    ELSE IF \E i \in 1..NRows(d) : ~Parseable(d.cols[datetime_col][i])
    THEN [raised |-> "ValueError", df |-> d]
    ELSE LET parsed == [i \in 1..NRows(d) |->
                           ToDatetime(d.cols[datetime_col][i])]
             full == SetCol(SetCol(d, datetime_col, parsed), "dt", Diff(parsed))
         IN  [raised |-> "none",
              df |-> ResetIndexDrop(Iloc(full, [k \in 1..(NRows(d) - 1) |-> k]))]

\* parse_time_and_compute_dt(d, datetime_col)
ParseTimeOutcome(d, datetime_col) ==
    IF ~HasCol(d, datetime_col)
    THEN [raised |-> "KeyError", df |-> d]
    ELSE IF \E i \in 1..NRows(d) : ~Parseable(d.cols[datetime_col][i])
    THEN [raised |-> "ValueError", df |-> d]
    ELSE LET parsed == [i \in 1..NRows(d) |->
                           ToDatetime(d.cols[datetime_col][i])]
         IN  [raised |-> "none",
              df |-> SetCol(SetCol(d, datetime_col, parsed),
                            "dt", Diff(parsed))]

\* data_compute_heading_from_xy(d, cfg)
HeadingOutcome(d, cfg) ==
    LET x_col == Get(cfg, "x_col", "x")
        y_col == Get(cfg, "y_col", "y")
        heading_col == Get(cfg, "heading_col", "heading_deg")
    IN  IF ~HasCol(d, x_col) \/ ~HasCol(d, y_col)
        THEN [raised |-> "ValueError", df |-> d]
        ELSE [raised |-> "none",
              df |-> SetCol(d, heading_col, HeadingColumn(d, x_col, y_col))]

\* stage number k of the sequence: runs once the k stages before it returned
Stage(k, out) ==
    /\ UNCHANGED <<processed_suffixes, saved>>
    /\ raised = "none"
    /\ calls = k
    /\ calls' = k + 1
    /\ raised' = out.raised
    /\ df' = out.df
    /\ hist' = IF out.raised = "none" THEN Append(hist, out.df) ELSE hist
    /\ UNCHANGED config

PipelineFilter ==
    /\ Stage(0, FilterOutcome(df, config))
    /\ retained_indices' =
          IF Empty(df) \/ ~HasCol(df, config.x_col) \/ ~HasCol(df, config.y_col)
          THEN <<>>
          ELSE RetainedIndices(Coords(df, config.x_col, config.y_col),
                               config.min_distance)

PipelineParseTime ==
    /\ Stage(1, ParseTimeOutcome(df, config.date_column))
    /\ UNCHANGED retained_indices

PipelineHeading ==
    /\ Stage(2, HeadingOutcome(df, config))
    /\ UNCHANGED retained_indices

PipelineYawRate ==
    /\ Stage(3, YawRateOutcome(df, config))
    /\ UNCHANGED retained_indices


(* ------------- data_smooth_gps_savitzky / _gaussian ------------------- *)
\* window_length of the Savitzky-Golay filter
WindowLength == 51

\* f"{col}_smooth_{method}"
SmoothName(col, method) == col \o "_smooth_" \o method

\* the filtered signal: cell i is <<method, col, i>>, the value the filter
\* named method yields at row i for the column col of the frame
SmoothedColumn(method, d, col) ==
    [i \in 1..NRows(d) |-> <<method, col, i>>]

\* variant: the filter is applied whatever the length of the signal
SavitzkyOutcomeNoWindow(d, cfg) ==
    IF "lat_col" \notin DOMAIN cfg \/ "lon_col" \notin DOMAIN cfg
    THEN [raised |-> "KeyError", df |-> d]
    ELSE IF ~HasCol(d, cfg.lat_col)
    THEN [raised |-> "KeyError", df |-> d]
    ELSE LET d1 == SetCol(d, SmoothName(cfg.lat_col, "savitzky"),
                          SmoothedColumn("savitzky", d, cfg.lat_col))
         IN  IF ~HasCol(d, cfg.lon_col)
             THEN [raised |-> "KeyError", df |-> d1]
             ELSE [raised |-> "none",
                   df |-> SetCol(d1, SmoothName(cfg.lon_col, "savitzky"),
                                 SmoothedColumn("savitzky", d, cfg.lon_col))]

\* variant: the smoothed signals replace the raw columns
SavitzkyOutcomeInPlace(d, cfg) ==
    IF "lat_col" \notin DOMAIN cfg \/ "lon_col" \notin DOMAIN cfg
    THEN [raised |-> "KeyError", df |-> d]
    ELSE IF ~HasCol(d, cfg.lat_col) \/ ~HasCol(d, cfg.lon_col)
    THEN [raised |-> "KeyError", df |-> d]
    ELSE IF NRows(d) < WindowLength
    THEN [raised |-> "ValueError", df |-> d]
    ELSE [raised |-> "none",
          df |-> SetCol(SetCol(d, cfg.lat_col,
                               SmoothedColumn("savitzky", d, cfg.lat_col)),
                        cfg.lon_col,
                        SmoothedColumn("savitzky", d, cfg.lon_col))]

\* data_smooth_gps_savitzky(d, cfg): savgol_filter raises ValueError when
\* the window is longer than the signal; the latitude column is written
\* before the longitude column is read
SavitzkyOutcome(d, cfg) ==
    IF "lat_col" \notin DOMAIN cfg \/ "lon_col" \notin DOMAIN cfg
    THEN [raised |-> "KeyError", df |-> d]
    ELSE IF ~HasCol(d, cfg.lat_col)
    THEN [raised |-> "KeyError", df |-> d]
    ELSE IF NRows(d) < WindowLength
    THEN [raised |-> "ValueError", df |-> d]
    ELSE LET d1 == SetCol(d, SmoothName(cfg.lat_col, "savitzky"),
                          SmoothedColumn("savitzky", d, cfg.lat_col))
         IN  IF ~HasCol(d, cfg.lon_col)
             THEN [raised |-> "KeyError", df |-> d1]
             ELSE [raised |-> "none",
                   df |-> SetCol(d1, SmoothName(cfg.lon_col, "savitzky"),
                                 SmoothedColumn("savitzky", d, cfg.lon_col))]

\* data_smooth_gps_gaussian(d, cfg): no minimum length
GaussianOutcome(d, cfg) ==
    IF "lat_col" \notin DOMAIN cfg \/ "lon_col" \notin DOMAIN cfg
    THEN [raised |-> "KeyError", df |-> d]
    ELSE IF ~HasCol(d, cfg.lat_col)
    THEN [raised |-> "KeyError", df |-> d]
    ELSE LET d1 == SetCol(d, SmoothName(cfg.lat_col, "gaussian"),
                          SmoothedColumn("gaussian", d, cfg.lat_col))
         IN  IF ~HasCol(d, cfg.lon_col)
             THEN [raised |-> "KeyError", df |-> d1]
             ELSE [raised |-> "none",
                   df |-> SetCol(d1, SmoothName(cfg.lon_col, "gaussian"),
                                 SmoothedColumn("gaussian", d, cfg.lon_col))]

\* a stage of main that may be skipped: it runs at any position up to k and
\* moves the position past k
OptionalStage(k, out) ==
    /\ UNCHANGED <<processed_suffixes, saved>>
    /\ raised = "none"
    /\ calls <= k
    /\ calls' = k + 1
    /\ raised' = out.raised
    /\ df' = out.df
    /\ hist' = IF out.raised = "none" THEN Append(hist, out.df) ELSE hist
    /\ UNCHANGED <<config, retained_indices>>

data_smooth_gps_savitzky == OptionalStage(0, SavitzkyOutcome(df, config))

data_smooth_gps_gaussian == OptionalStage(1, GaussianOutcome(df, config))

(* ----------------------- data_convert_to_planar ----------------------- *)
\* the smoothing methods, in the order in which main creates their columns
Methods == <<"savitzky", "gaussian">>

\* [col for col in df.columns if col.startswith("GPS_lat_smooth_")], as the
\* list of the methods col.split("_")[-1] of these columns
SmoothedMethods(d) ==
    SelectSeq(Methods, LAMBDA m : HasCol(d, "GPS_lat_smooth_" \o m))

\* the values offered by the selection dialog; without a dialog the
\* selection is not asked for
DialogValues(d) ==
    IF Len(SmoothedMethods(d)) > 1
    THEN {SmoothedMethods(d)[k] : k \in 1..Len(SmoothedMethods(d))}
    ELSE {"none"}

\* transformer.transform(lon, lat): cell i of the planar coordinate axis is
\* <<"utm", axis, lon[i], lat[i]>>, the projection of the pair
\* (lon[i], lat[i])
Project(axis, lons, lats) ==
    [i \in 1..Len(lats) |-> <<"utm", axis, lons[i], lats[i]>>]

\* lines 102-111 for the chosen columns
Projected(d, lat_col, lon_col, selected_method) ==
    IF ~HasCol(d, lon_col) \/ ~HasCol(d, lat_col)
    THEN [raised |-> "KeyError", df |-> d]
    ELSE LET dx == SetCol(d, "x", Project("x", d.cols[lon_col], d.cols[lat_col]))
             dy == SetCol(dx, "y", Project("y", d.cols[lon_col], d.cols[lat_col]))
         IN  [raised |-> "none",
              df |-> SetCol(dy, "selected_smoothing_method",
                            [i \in 1..NRows(d) |-> selected_method])]

\* variant: with several variants the first one is projected, whatever the
\* dialog returned
PlanarOutcomeFirst(d, cfg, selection) ==
    LET methods == SmoothedMethods(d)
    IN  IF Len(methods) > 1
        THEN IF \/ ~HasCol(d, "GPS_lat_smooth_" \o selection)
                \/ ~HasCol(d, "GPS_lon_smooth_" \o selection)
             THEN [raised |-> "ValueError", df |-> d]
             ELSE Projected(d, "GPS_lat_smooth_" \o methods[1],
                            "GPS_lon_smooth_" \o methods[1], selection)
        ELSE IF Len(methods) = 1
        THEN Projected(d, "GPS_lat_smooth_" \o methods[1],
                       "GPS_lon_smooth_" \o methods[1], methods[1])
        ELSE IF "lat_col" \notin DOMAIN cfg \/ "lon_col" \notin DOMAIN cfg
        THEN [raised |-> "KeyError", df |-> d]
        ELSE Projected(d, cfg.lat_col, cfg.lon_col, "none")

\* data_convert_to_planar(d, cfg) when the dialog, if shown, returns
\* selection
PlanarOutcome(d, cfg, selection) ==
    LET methods == SmoothedMethods(d)
    IN  IF Len(methods) > 1
        THEN IF \/ ~HasCol(d, "GPS_lat_smooth_" \o selection)
                \/ ~HasCol(d, "GPS_lon_smooth_" \o selection)
             THEN [raised |-> "ValueError", df |-> d]
             ELSE Projected(d, "GPS_lat_smooth_" \o selection,
                            "GPS_lon_smooth_" \o selection, selection)
        ELSE IF Len(methods) = 1
        THEN Projected(d, "GPS_lat_smooth_" \o methods[1],
                       "GPS_lon_smooth_" \o methods[1], methods[1])
        ELSE IF "lat_col" \notin DOMAIN cfg \/ "lon_col" \notin DOMAIN cfg
        THEN [raised |-> "KeyError", df |-> d]
        ELSE Projected(d, cfg.lat_col, cfg.lon_col, "none")

data_convert_to_planar ==
    \E selection \in DialogValues(df) :
        OptionalStage(2, PlanarOutcome(df, config, selection))


(* -------------------------------- main -------------------------------- *)
\* the parameters of the two kinematics functions of data_tools
HeadingParams == <<"df", "config">>

YawRateParams == <<"df", "config">>

\* a call with the first positional arguments given by position and the
\* others by the names in keywords binds every parameter, and only
\* parameters
Accepts(params, positional, keywords) ==
    /\ keywords \subseteq {params[i] : i \in (positional + 1)..Len(params)}
    /\ \A i \in 1..Len(params) : i <= positional \/ params[i] \in keywords

\* data_compute_heading_from_xy(df_subset, x_col=..., y_col=...,
\* heading_col="heading_deg") as main writes it
MainHeadingOutcome(d, cfg) ==
    IF ~Accepts(HeadingParams, 1, {"x_col", "y_col", "heading_col"})
    THEN [raised |-> "TypeError", df |-> d]
    ELSE HeadingOutcome(d, [x_col |-> cfg.x_col, y_col |-> cfg.y_col,
                            heading_col |-> "heading_deg"])

\* data_compute_yaw_rate_from_heading(df_subset, heading_col="heading_deg",
\* dt_col="dt", yaw_rate_col="yaw_rate_deg_s") as main writes it
MainYawRateOutcome(d, cfg) ==
    IF ~Accepts(YawRateParams, 1, {"heading_col", "dt_col", "yaw_rate_col"})
    THEN [raised |-> "TypeError", df |-> d]
    ELSE YawRateOutcome(d, [heading_col |-> "heading_deg", dt_col |-> "dt"])

\* step k of the loop body: if config.get(flag, True): df_subset = stage;
\* processed_suffixes.append(suffix)
MainStep(k, flag, suffix, out) ==
    /\ raised = "none"
    /\ calls = k
    /\ calls' = k + 1
    /\ IF Get(config, flag, TRUE)
       THEN /\ raised' = out.raised
            /\ df' = out.df
            /\ hist' = IF out.raised = "none" THEN Append(hist, out.df)
                       ELSE hist
            /\ processed_suffixes' =
                  IF out.raised = "none" THEN Append(processed_suffixes, suffix)
                  ELSE processed_suffixes
       ELSE UNCHANGED <<raised, df, hist, processed_suffixes>>
    /\ UNCHANGED <<config, saved>>

MainSavitzky ==
    /\ MainStep(0, "smooth_gps_data_with_savitzky", "savitzky",
                SavitzkyOutcome(df, config))
    /\ UNCHANGED retained_indices

MainGaussian ==
    /\ MainStep(1, "smooth_gps_data_with_gaussian", "gaussian",
                GaussianOutcome(df, config))
    /\ UNCHANGED retained_indices

MainPlanar ==
    /\ \E selection \in DialogValues(df) :
          MainStep(2, "convert_to_planar", "planar",
                   PlanarOutcome(df, config, selection))
    /\ UNCHANGED retained_indices

MainFilter ==
    /\ MainStep(3, "filter_with_distances", "dist", FilterOutcome(df, config))
    /\ retained_indices' =
          IF /\ Get(config, "filter_with_distances", TRUE)
             /\ HasCol(df, config.x_col) /\ HasCol(df, config.y_col)
          THEN RetainedIndices(Coords(df, config.x_col, config.y_col),
                               config.min_distance)
          ELSE retained_indices

MainParseTime ==
    /\ MainStep(4, "parse_time", "time",
                ParseTimeOutcome(df, config.date_column))
    /\ UNCHANGED retained_indices

MainHeading ==
    /\ MainStep(5, "compute_heading_from_xy", "heading",
                MainHeadingOutcome(df, config))
    /\ UNCHANGED retained_indices

MainYawRate ==
    /\ MainStep(6, "compute_yaw_rate_from_heading", "yawRate",
                MainYawRateOutcome(df, config))
    /\ UNCHANGED retained_indices

\* if config.get("save_to_csv", True): csv_save(df_subset, save_path, ...)
\* with the suffixes joined into the file name
MainSave ==
    /\ raised = "none"
    /\ calls = 7
    /\ calls' = 8
    /\ saved' = IF Get(config, "save_to_csv", TRUE)
                THEN <<[df |-> df, suffixes |-> processed_suffixes]>>
                ELSE saved
    /\ UNCHANGED <<df, config, hist, retained_indices, raised,
                   processed_suffixes>>

(* ------------------------------ inputs -------------------------------- *)
Cells == {Num(n) : n \in 0..MaxCoord}

\* a sample position: a grid point, or a missing fix
Points == (Cells \X Cells) \cup {<<NaN, NaN>>}

\* a trace sampled once per second: row k carries the timestamp text k-1
ClockColumn(n) == [k \in 1..n |-> DigitChar[k]]

\* the loaded subset: one row per sample, the columns in missing left out
Frame(pts, times, missing) ==
    [index |-> RangeIndex(Len(pts)),
     cols  |-> [c \in {"DatumZeit", "x", "y"} \ missing |->
                  IF c = "x" THEN [k \in 1..Len(pts) |-> pts[k][1]]
                  ELSE IF c = "y" THEN [k \in 1..Len(pts) |-> pts[k][2]]
                  ELSE times]]

Traces(S) == UNION {[1..n -> S] : n \in 0..MaxLen}

Config(d) == [x_col |-> "x", y_col |-> "y", date_column |-> "DatumZeit",
              min_distance |-> d]

InitResampler ==
    /\ processed_suffixes = <<>>
    /\ saved = <<>>
    /\ \E pts \in Traces(Points), missing \in SUBSET {"x", "y"} :
          df = Frame(pts, ClockColumn(Len(pts)), missing)
    /\ \E d \in -1..MaxDist : config = Config(d)
    /\ calls = 0
    /\ hist = <<df>>
    /\ retained_indices = <<>>
    /\ raised = "none"

NextResampler == data_filter_points_by_distance

SpecResampler == InitResampler /\ [][NextResampler]_vars

\* timestamp texts: the seconds 0..MaxTime and one unparseable text
TimeCells == {DigitChar[n + 1] : n \in 0..MaxTime} \cup {"n/a"}

\* positions along the x axis, one grid step per row
LinePath(n) == [k \in 1..n |-> <<Num(k - 1), Num(0)>>]

InitDifferencer ==
    /\ processed_suffixes = <<>>
    /\ saved = <<>>
    /\ \E times \in Traces(TimeCells), missing \in SUBSET {"DatumZeit"} :
          df = Frame(LinePath(Len(times)), times, missing)
    /\ config = Config(1)
    /\ calls = 0
    /\ hist = <<df>>
    /\ retained_indices = <<>>
    /\ raised = "none"

NextDifferencer == parse_time_and_compute_dt

SpecDifferencer == InitDifferencer /\ [][NextDifferencer]_vars

InitHeading ==
    /\ processed_suffixes = <<>>
    /\ saved = <<>>
    /\ \E pts \in Traces(Points), missing \in SUBSET {"x", "y"} :
          df = Frame(pts, ClockColumn(Len(pts)), missing)
    /\ config = Config(1)
    /\ calls = 0
    /\ hist = <<df>>
    /\ retained_indices = <<>>
    /\ raised = "none"

NextHeading == data_compute_heading_from_xy

SpecHeading == InitHeading /\ [][NextHeading]_vars

\* directly sensed headings, thousandths of a degree in [0, 360), or missing
Headings == {Num(0), Num(1000), Num(180000), Num(359000), NaN}

\* time deltas in seconds: zero, positive, negative, or missing
DtCells == {Num(0), Num(1), Num(-2), NaN}

\* a trace that carries a sensed heading and a dt column
SensedFrame(hs, dts, missing) ==
    [index |-> RangeIndex(Len(hs)),
     cols  |-> [c \in {"heading_deg", "dt"} \ missing |->
                  IF c = "heading_deg" THEN hs ELSE dts]]

\* dt of a trace sampled once per second
ClockDt(n) == [k \in 1..n |-> IF k = 1 THEN NaN ELSE Num(1)]

InitKinematics ==
    /\ processed_suffixes = <<>>
    /\ saved = <<>>
    /\ \/ \E pts \in Traces(Points), missing \in SUBSET {"x", "y"},
             with_dt \in BOOLEAN :
             LET frame == Frame(pts, ClockColumn(Len(pts)), missing)
             IN  df = IF with_dt THEN SetCol(frame, "dt", ClockDt(Len(pts)))
                      ELSE frame
       \/ \E n \in 0..MaxLen :
             \E hs \in [1..n -> Headings], dts \in [1..n -> DtCells],
                missing \in SUBSET {"heading_deg", "dt"} :
                df = SensedFrame(hs, dts, missing)
    /\ config = Config(1)
    /\ calls = 0
    /\ hist = <<df>>
    /\ retained_indices = <<>>
    /\ raised = "none"

NextKinematics ==
    \/ data_compute_heading_from_xy
    \/ data_compute_yaw_rate_from_heading

SpecKinematics == InitKinematics /\ [][NextKinematics]_vars

\* positions and timestamp texts of the traces run through all four stages
PipePoints == {<<Num(0), Num(0)>>, <<Num(1), Num(0)>>,
               <<Num(2), Num(0)>>, <<Num(2), Num(2)>>}

PipeTimes == {"0", "1", "2"}

InitPipeline ==
    /\ processed_suffixes = <<>>
    /\ saved = <<>>
    /\ \E n \in 0..MaxLen :
          \E pts \in [1..n -> PipePoints], times \in [1..n -> PipeTimes] :
             df = Frame(pts, times, {})
    /\ \E d \in {1, 2} : config = Config(d)
    /\ calls = 0
    /\ hist = <<df>>
    /\ retained_indices = <<>>
    /\ raised = "none"

NextPipeline ==
    \/ PipelineFilter
    \/ PipelineParseTime
    \/ PipelineHeading
    \/ PipelineYawRate

SpecPipeline == InitPipeline /\ [][NextPipeline]_vars

\* trace lengths around the Savitzky-Golay window
SmoothLens == {1, WindowLength - 1, WindowLength, WindowLength + 1}

\* a loaded subset with the raw latitude and longitude columns under the
\* names lat and lon, the columns in missing left out
RawFrame(n, lat, lon, missing) ==
    [index |-> RangeIndex(n),
     cols  |-> [c \in {lat, lon} \ missing |->
                  IF c = lat THEN [i \in 1..n |-> Num(i)]
                  ELSE [i \in 1..n |-> Num(0 - i)]]]

\* the configuration of main; smoothing_method is set unless param = "none"
GpsConfig(lat, lon, param) ==
    LET base == [lat_col |-> lat, lon_col |-> lon, x_col |-> "x",
                 y_col |-> "y", date_column |-> "DatumZeit",
                 min_distance |-> 1]
    IN  IF param = "none" THEN base
        ELSE ("smoothing_method" :> param) @@ base

\* configured names of the planar coordinate columns
PlanarNames == {<<"x", "y">>, <<"east", "north">>}

InitProjector ==
    /\ processed_suffixes = <<>>
    /\ saved = <<>>
    /\ \E lat \in {"GPS_lat", "lat"}, lon \in {"GPS_lon", "lon"},
          n \in SmoothLens,
          param \in {"none", "savitzky", "gaussian"} :
          \E missing \in SUBSET {lat, lon}, planar \in PlanarNames :
             /\ df = RawFrame(n, lat, lon, missing)
             /\ config = [GpsConfig(lat, lon, param) EXCEPT
                             !.x_col = planar[1], !.y_col = planar[2]]
    /\ calls = 0
    /\ hist = <<df>>
    /\ retained_indices = <<>>
    /\ raised = "none"

NextProjector ==
    \/ data_smooth_gps_savitzky
    \/ data_smooth_gps_gaussian
    \/ data_convert_to_planar

SpecProjector == InitProjector /\ [][NextProjector]_vars

\* the step names the selection window offers (keys of default_config that
\* switch a stage or the saving)
StepNames == {"smooth_gps_data_savitzky", "smooth_gps_data_gaussian",
              "convert_to_planar", "filter_with_distances", "parse_time",
              "compute_heading_from_xy", "compute_yaw_rate_from_heading",
              "save_to_csv"}

\* selected_steps: one boolean per step name, or nothing when the window was
\* closed without submitting
SelectedSteps == [StepNames -> BOOLEAN] \cup {<<>>}

\* a loaded subset of n rows of a standing vehicle: constant GPS signals, a
\* clock that shows the last digit of the second; with_xy adds planar
\* columns that advance one grid step per row along the x axis
SubsetFrame(n, with_xy) ==
    [index |-> RangeIndex(n),
     cols  |-> [c \in {"DatumZeit", "GPS_lat", "GPS_lon"}
                      \cup (IF with_xy THEN {"x", "y"} ELSE {}) |->
                  [k \in 1..n |->
                     CASE c = "DatumZeit" -> DigitChar[((k - 1) % 10) + 1]
                       [] c = "GPS_lat"   -> Num(1)
                       [] c = "GPS_lon"   -> Num(2)
                       [] c = "x"         -> Num(k - 1)
                       [] c = "y"         -> Num(0)]]]

InitMain ==
    /\ \E n \in {WindowLength - 1, WindowLength}, with_xy \in BOOLEAN :
          df = SubsetFrame(n, with_xy)
    /\ \E steps \in SelectedSteps, d \in {1, 2} :
          config = steps @@ [min_distance |-> d]
                         @@ GpsConfig("GPS_lat", "GPS_lon", "none")
    /\ calls = 0
    /\ hist = <<df>>
    /\ retained_indices = <<>>
    /\ raised = "none"
    /\ processed_suffixes = <<>>
    /\ saved = <<>>

NextMain ==
    \/ MainSavitzky
    \/ MainGaussian
    \/ MainPlanar
    \/ MainFilter
    \/ MainParseTime
    \/ MainHeading
    \/ MainYawRate
    \/ MainSave

SpecMain == InitMain /\ [][NextMain]_vars

(* ====================== Resampler properties ========================== *)
\* the frame handed to the first call and the frame it returned
Input == hist[1]

Output == hist[2]

Returned == calls >= 1 /\ raised = "none"

\* position of 1-based row i
Pt(d, i) == <<d.cols["x"][i], d.cols["y"][i]>>

\* squared planar distance of two positions with numeric coordinates
SqDist(p, q) ==
    (p[1][1] - q[1][1]) * (p[1][1] - q[1][1])
  + (p[2][1] - q[2][1]) * (p[2][1] - q[2][1])

Numeric(p) == p[1] # NaN /\ p[2] # NaN

\* the Euclidean distance of p and q is a number and is >= dist
Apart(p, q, dist) ==
    /\ Numeric(p) /\ Numeric(q)
    /\ (dist <= 0 \/ SqDist(p, q) >= dist * dist)

Retained == {retained_indices[k] : k \in 1..Len(retained_indices)}

\* greatest retained 0-based position below i
LastRetainedBefore(i) ==
    CHOOSE r \in Retained : r < i /\ \A q \in Retained : q < i => q <= r

SameRows(a, b) ==
    /\ a.index = b.index
    /\ \A c \in DOMAIN b.cols : c \in DOMAIN a.cols /\ a.cols[c] = b.cols[c]

\* C1: every sample after the first is retained if and only if its planar
\* distance to the most recently retained sample is >= min_distance; a
\* sample at exactly min_distance is retained.
C1_RetentionRule ==
    (calls = 1 /\ raised = "none" /\ ~Empty(Input)) =>
        \A i \in 1..(NRows(Input) - 1) :
            (i \in Retained) <=>
                Apart(Pt(Input, i + 1), Pt(Input, LastRetainedBefore(i) + 1),
                      config.min_distance)

\* the middle sample is dropped; the last one is closer than min_distance to
\* that raw predecessor but exactly min_distance from the last retained
\* sample, and it is retained
C1_Witness ==
    /\ calls = 1 /\ raised = "none" /\ NRows(Input) = 3
    /\ config.min_distance = 2
    /\ retained_indices = <<0, 2>>
    /\ ~Apart(Pt(Input, 3), Pt(Input, 2), 2)
    /\ SqDist(Pt(Input, 3), Pt(Input, 1)) = 4

\* C2: consecutive samples of the output are at planar distance
\* >= min_distance, for every input trace and every min_distance.
C2_ConsecutiveApart ==
    Returned =>
        \A k \in 1..(NRows(df) - 1) :
            Apart(Pt(df, k), Pt(df, k + 1), config.min_distance)

C2_Witness ==
    /\ Returned /\ config.min_distance = 2
    /\ NRows(Input) = 3 /\ NRows(df) = 2

\* C3: the first sample of a non-empty input is the first sample of the
\* output, so the output is not empty.
C3_FirstRetained ==
    (Returned /\ NRows(Input) >= 1) =>
        /\ NRows(Output) >= 1
        /\ \A c \in DOMAIN Input.cols : Output.cols[c][1] = Input.cols[c][1]

C3_Witness ==
    /\ Returned /\ NRows(Input) = 3 /\ NRows(Output) = 1
    /\ config.min_distance = MaxDist
    /\ Numeric(Pt(Input, 2))

\* C4: filtering the output again with the same min_distance retains every
\* sample: the second result has the same rows in the same order.
C4_Idempotent ==
    (calls >= 2 /\ raised = "none") => hist[3] = hist[2]

C4_Witness ==
    /\ calls = 2 /\ raised = "none" /\ config.min_distance > 0
    /\ NRows(hist[1]) = 3 /\ NRows(hist[2]) = 2 /\ NRows(hist[3]) = 2

\* C5: with min_distance = 0 the output equals the input: every sample is
\* retained, in the same order.
C5_ZeroKeepsAll ==
    (Returned /\ config.min_distance = 0) => SameRows(Output, Input)

\* C6: the output is an order-preserving subsequence of the input: rows are
\* taken unaltered at strictly increasing input positions, and the output is
\* labelled 0..k-1 without keeping the input positions.
C6_Subsequence ==
    (calls = 1 /\ raised = "none" /\ ~Empty(Input)) =>
        /\ Len(retained_indices) = NRows(df)
        /\ \A k \in 1..Len(retained_indices) :
              /\ retained_indices[k] \in 0..(NRows(Input) - 1)
              /\ k > 1 => retained_indices[k - 1] < retained_indices[k]
              /\ \A c \in DOMAIN Input.cols :
                    df.cols[c][k] = Input.cols[c][retained_indices[k] + 1]
        /\ df.index = [k \in 1..NRows(df) |-> k - 1]
        /\ DOMAIN df.cols = DOMAIN Input.cols \cup {"min_distance"}

\* the middle row is dropped, the row after it is kept
C6_Witness ==
    /\ calls = 1 /\ raised = "none"
    /\ retained_indices = <<0, 2>>
    /\ df.cols["DatumZeit"] = <<"0", "2">>

\* C7: on an empty input the Resampler returns the trace unchanged and
\* raises no error.
C7_EmptyUnchanged ==
    (calls >= 1 /\ NRows(Input) = 0) =>
        /\ raised = "none"
        /\ Len(hist) >= 2
        /\ Output = Input

\* an empty trace that does not even carry the planar columns
C7_Witness ==
    /\ calls = 1 /\ raised = "none" /\ NRows(Input) = 0
    /\ ~HasCol(Input, "x") /\ Len(hist) = 2

\* C5 as amended: with min_distance = 0 and no missing coordinate in the
\* trace, the output equals the input: every sample is retained, in the same
\* order, including consecutive duplicate positions.
C5_ZeroKeepsAllNumeric ==
    (Returned /\ config.min_distance = 0
       /\ \A i \in 1..NRows(Input) : Numeric(Pt(Input, i))) =>
        SameRows(Output, Input)

\* three samples at one position, all retained
C5_Witness ==
    /\ Returned /\ config.min_distance = 0 /\ NRows(Input) = 3
    /\ Numeric(Pt(Input, 1))
    /\ Pt(Input, 2) = Pt(Input, 1) /\ Pt(Input, 3) = Pt(Input, 1)
    /\ NRows(Output) = 3

(* ================== Temporal Differencer properties =================== *)
\* C8: dt[i] = timestamp[i] - timestamp[i-1] in seconds for every i >= 1,
\* and dt[0] is a missing value, never zero.
C8_DtDifferences ==
    Returned =>
        LET ts == df.cols["DatumZeit"]
            dt == df.cols["dt"]
        IN  /\ Len(dt) = NRows(Input)
            /\ \A i \in 1..Len(dt) :
                  IF i = 1 THEN dt[i] = NaN /\ dt[i] # Num(0)
                  ELSE /\ dt[i] # NaN
                       /\ dt[i][1] = ts[i][1] - ts[i - 1][1]
            /\ \A i \in 1..Len(ts) :
                  DigitChar[ts[i][1] + 1] = Input.cols["DatumZeit"][i]

\* an unsorted trace with a repeated timestamp
C8_Witness ==
    /\ Returned
    /\ Input.cols["DatumZeit"] = <<"2", "2", "0">>
    /\ df.cols["dt"] = <<NaN, Num(0), Num(-2)>>

\* C9: for a strictly increasing timestamp sequence every defined dt value
\* (i >= 1) is strictly positive.
C9_DtPositive ==
    LET ts == df.cols["DatumZeit"]
        dt == df.cols["dt"]
    IN  (Returned /\ \A i \in 2..Len(ts) : ts[i - 1][1] < ts[i][1]) =>
            \A i \in 2..Len(dt) : dt[i] # NaN /\ dt[i][1] > 0

C9_Witness ==
    /\ Returned
    /\ Input.cols["DatumZeit"] = <<"0", "1", "3">>
    /\ df.cols["dt"] = <<NaN, Num(1), Num(2)>>

(* ======================== Heading properties ========================== *)
\* C10: every defined heading_deg value lies in [0, 360), also for
\* displacements of negative angle and for zero displacement.
C10_HeadingRange ==
    Returned =>
        \A i \in 1..NRows(df) :
            LET h == df.cols["heading_deg"][i]
            IN  h # NaN => (0 <= h[1] /\ h[1] < 360000)

\* a move due south followed by no move at all
C10_Witness ==
    /\ Returned /\ NRows(Input) = 3
    /\ Pt(Input, 1) = <<Num(0), Num(1)>>
    /\ Pt(Input, 2) = <<Num(0), Num(0)>>
    /\ Pt(Input, 3) = <<Num(0), Num(0)>>
    /\ df.cols["heading_deg"] = <<NaN, Num(270000), Num(0)>>

\* displacement from row i-1 to row i (both positions numeric)
Dx(d, i) == d.cols["x"][i][1] - d.cols["x"][i - 1][1]

Dy(d, i) == d.cols["y"][i][1] - d.cols["y"][i - 1][1]

\* C11: the heading is the direction angle of the displacement, measured
\* counter-clockwise from the +x axis and normalized to [0, 360): due east
\* gives 0, due north 90, due west 180, due south 270, the diagonals the
\* odd multiples of 45, and any other move an angle strictly inside its
\* quadrant.
C11_HeadingDirection ==
    Returned =>
        \A i \in 2..NRows(df) :
            (Numeric(Pt(df, i)) /\ Numeric(Pt(df, i - 1))) =>
                LET dx == Dx(df, i)
                    dy == Dy(df, i)
                    h  == df.cols["heading_deg"][i]
                IN  /\ h # NaN
                    /\ (dx > 0 /\ dy = 0) => h[1] = 0
                    /\ (dx = 0 /\ dy > 0) => h[1] = 90000
                    /\ (dx < 0 /\ dy = 0) => h[1] = 180000
                    /\ (dx = 0 /\ dy < 0) => h[1] = 270000
                    /\ (dx > 0 /\ dy = dx) => h[1] = 45000
                    /\ (dx < 0 /\ dy = -dx) => h[1] = 135000
                    /\ (dx < 0 /\ dy = dx) => h[1] = 225000
                    /\ (dx > 0 /\ dy = -dx) => h[1] = 315000
                    /\ (dx > 0 /\ dy > 0) => (0 < h[1] /\ h[1] < 90000)
                    /\ (dx < 0 /\ dy > 0) => (90000 < h[1] /\ h[1] < 180000)
                    /\ (dx < 0 /\ dy < 0) => (180000 < h[1] /\ h[1] < 270000)
                    /\ (dx > 0 /\ dy < 0) => (270000 < h[1] /\ h[1] < 360000)
                    /\ (dx > 0 /\ dy > 0 /\ dy < dx) => h[1] < 45000
                    /\ (dx > 0 /\ dy > dx) => h[1] > 45000

\* a move due west followed by a move due south
C11_Witness ==
    /\ Returned /\ NRows(df) = 3
    /\ Pt(df, 1) = <<Num(1), Num(1)>>
    /\ Pt(df, 2) = <<Num(0), Num(1)>>
    /\ Pt(df, 3) = <<Num(0), Num(0)>>
    /\ df.cols["heading_deg"] = <<NaN, Num(180000), Num(270000)>>

(* ======================= Yaw-rate properties ========================== *)
YawDone == raised = "none" /\ HasCol(df, "yaw_rate_deg_s")

\* C12: for consecutive headings in [0, 360) the wrapped difference is the
\* unique value in [-180, 180) congruent to heading[i] - heading[i-1] modulo
\* 360; it is read off the yaw rate of the rows with dt = 1, where the yaw
\* rate equals the wrapped difference.  Headings 359, 1 give +2 and 1, 359
\* give -2.
C12_WrapCorrect ==
    YawDone =>
        \A i \in 2..NRows(df) :
            LET h  == df.cols["heading_deg"]
                yr == df.cols["yaw_rate_deg_s"][i]
            IN  (h[i] # NaN /\ h[i - 1] # NaN /\ df.cols["dt"][i] = Num(1)) =>
                    /\ Len(yr) = 2 /\ yr[2] = 1
                    /\ -180000 <= yr[1] /\ yr[1] < 180000
                    /\ (yr[1] - (h[i][1] - h[i - 1][1])) % 360000 = 0
                    /\ (h[i - 1] = Num(359000) /\ h[i] = Num(1000))
                          => yr[1] = 2000
                    /\ (h[i - 1] = Num(1000) /\ h[i] = Num(359000))
                          => yr[1] = -2000

\* headings 359, 1, 359 sampled once per second
C12_Witness ==
    /\ YawDone /\ NRows(df) = 3
    /\ df.cols["heading_deg"] = <<Num(359000), Num(1000), Num(359000)>>
    /\ df.cols["dt"][2] = Num(1) /\ df.cols["dt"][3] = Num(1)
    /\ df.cols["yaw_rate_deg_s"][2] = <<2000, 1>>
    /\ df.cols["yaw_rate_deg_s"][3] = <<-2000, 1>>

\* C13: the yaw rate is the wrapped difference divided by dt; for dt = 0 the
\* stored value is +inf, -inf or NaN, never 0, and the call raises nothing
\* whenever the heading and dt columns exist.
C13_ZeroDt ==
    /\ YawDone =>
          \A i \in 2..NRows(df) :
              LET h  == df.cols["heading_deg"]
                  dt == df.cols["dt"][i]
                  yr == df.cols["yaw_rate_deg_s"][i]
              IN  (h[i] # NaN /\ h[i - 1] # NaN /\ dt # NaN) =>
                      IF dt[1] = 0
                      THEN /\ yr \in {PosInf, NegInf, NaN}
                           /\ yr # <<0, 1>>
                           /\ (yr = NaN) <=> ((h[i][1] - h[i - 1][1]) % 360000 = 0)
                      ELSE /\ Len(yr) = 2 /\ yr[2] > 0
                           /\ (yr[1] * dt[1]) % yr[2] = 0
                           /\ LET w == (yr[1] * dt[1]) \div yr[2]
                              IN  /\ -180000 <= w /\ w < 180000
                                  /\ (w - (h[i][1] - h[i - 1][1])) % 360000 = 0
    /\ (calls = 2 /\ HasCol(df, "heading_deg") /\ HasCol(df, "dt"))
          => raised = "none"

\* a turn and a standstill of the heading, both with dt = 0
C13_Witness ==
    /\ YawDone /\ NRows(df) = 3
    /\ df.cols["heading_deg"] = <<Num(0), Num(359000), Num(359000)>>
    /\ df.cols["dt"][2] = Num(0) /\ df.cols["dt"][3] = Num(0)
    /\ df.cols["yaw_rate_deg_s"][2] = NegInf
    /\ df.cols["yaw_rate_deg_s"][3] = NaN

\* C20: heading computation fails with a missing-column error when x or y is
\* absent, yaw-rate computation fails with one when the heading or the dt
\* column is absent; the frame is left as it was, no output column is
\* written, no column is made up for the missing one, and nothing else
\* makes the two stages fail.
C20_MissingColumns ==
    /\ (calls = 1 /\ (~HasCol(Input, "x") \/ ~HasCol(Input, "y"))) =>
          (raised = "ValueError" /\ df = Input /\ hist = <<Input>>)
    /\ calls = 2 =>
          LET before == IF HasCol(df, "yaw_rate_deg_s")
                        THEN hist[Len(hist) - 1] ELSE hist[Len(hist)]
          IN  (~HasCol(before, "heading_deg") \/ ~HasCol(before, "dt")) =>
                  /\ raised = "ValueError"
                  /\ ~HasCol(df, "yaw_rate_deg_s")
                  /\ df = before
    /\ (calls = 1 /\ raised # "none") =>
          (~HasCol(df, "x") \/ ~HasCol(df, "y"))
    /\ (calls = 2 /\ raised # "none") =>
          (~HasCol(df, "heading_deg") \/ ~HasCol(df, "dt"))

\* the heading was computed, then the yaw rate failed for want of dt
C20_Witness ==
    /\ calls = 2 /\ raised = "ValueError" /\ Len(hist) = 2
    /\ NRows(df) = 3
    /\ HasCol(df, "heading_deg") /\ ~HasCol(df, "dt")
    /\ ~HasCol(df, "yaw_rate_deg_s")

(* ======================= Pipeline properties ========================== *)
\* the trace (t=0s, 0 m, 0 m), (t=1s, 1 m, 0 m), (t=2s, 1 m, 1 m)
ScenarioTrace ==
    Frame(<<<<Num(0), Num(0)>>, <<Num(2), Num(0)>>, <<Num(2), Num(2)>>>>,
          <<"0", "1", "2">>, {})

\* C14: Resampler (min_distance 0.5 m), Temporal Differencer, heading and
\* yaw rate run in that order on the scenario trace retain all three
\* samples and give headings [undefined, 0, 90] and yaw rates
\* [undefined, undefined, 90].
C14_Scenario ==
    (Input = ScenarioTrace /\ config.min_distance = 1) =>
        /\ raised = "none"
        /\ calls >= 1 => (NRows(df) = 3 /\ retained_indices = <<0, 1, 2>>)
        /\ calls >= 2 => df.cols["dt"] = <<NaN, Num(1), Num(1)>>
        /\ calls >= 3 => df.cols["heading_deg"] = <<NaN, Num(0), Num(90000)>>
        /\ calls >= 4 => df.cols["yaw_rate_deg_s"] = <<NaN, NaN, <<90000, 1>>>>

C14_Witness ==
    /\ Input = ScenarioTrace /\ config.min_distance = 1
    /\ calls = 4 /\ raised = "none" /\ Len(hist) = 5
    /\ HasCol(df, "yaw_rate_deg_s")

\* a yaw-rate cell that holds a number (not NaN, not an infinity)
Finite(v) == Len(v) = 2 /\ v[2] # 0

\* C15: the heading is undefined at the first retained sample; the yaw rate
\* is undefined (NaN or an infinity, never a number) at the first retained
\* sample and at every sample whose dt is zero or undefined.
C15_Definedness ==
    /\ (calls >= 3 /\ raised = "none" /\ NRows(df) >= 1) =>
          df.cols["heading_deg"][1] = NaN
    /\ (calls >= 4 /\ raised = "none") =>
          \A i \in 1..NRows(df) :
              (i = 1 \/ df.cols["dt"][i] = NaN \/ df.cols["dt"][i] = Num(0))
                 => ~Finite(df.cols["yaw_rate_deg_s"][i])

\* the middle sample is dropped; the last retained sample has the timestamp
\* of the one before it and a different heading
C15_Witness ==
    /\ calls = 4 /\ raised = "none"
    /\ NRows(df) = 3
    /\ df.cols["dt"][3] = Num(0)
    /\ df.cols["heading_deg"][2] # df.cols["heading_deg"][3]
    /\ df.cols["yaw_rate_deg_s"][3] \in {PosInf, NegInf}
    /\ df.cols["yaw_rate_deg_s"][1] = NaN

(* ================= Resampler: missing planar columns ================== *)
\* C19: for every trace without the x column or without the y column the
\* Resampler fails with a missing-column error and returns no output.
C19_MissingAlwaysFails ==
    (calls >= 1 /\ (~HasCol(Input, "x") \/ ~HasCol(Input, "y"))) =>
        (raised = "ValueError" /\ hist = <<Input>>)

\* C19 as amended: for every non-empty trace without the x column or
\* without the y column the Resampler fails with a missing-column error
\* (ValueError) and returns no output; an empty trace is returned unchanged
\* whatever its columns.
C19_MissingFailsNonEmpty ==
    (calls >= 1 /\ (~HasCol(Input, "x") \/ ~HasCol(Input, "y"))) =>
        IF NRows(Input) = 0
        THEN raised = "none" /\ Output = Input
        ELSE raised = "ValueError" /\ hist = <<Input>> /\ df = Input

\* three samples with x but without y
C19_Witness ==
    /\ calls = 1 /\ raised = "ValueError"
    /\ NRows(Input) = 3
    /\ HasCol(Input, "x") /\ ~HasCol(Input, "y")
    /\ ~HasCol(df, "min_distance")

(* ===================== Smoothing: frame condition ===================== *)
\* the two columns a smoothing method adds for the configured raw columns
SmoothedPair(m) ==
    {config.lat_col \o "_smooth_" \o m, config.lon_col \o "_smooth_" \o m}

\* the raw latitude and longitude columns of the input are still there with
\* the values, the row count and the row order of the input
RawUntouched ==
    /\ df.index = Input.index
    /\ \A c \in DOMAIN Input.cols :
          c \in DOMAIN df.cols /\ df.cols[c] = Input.cols[c]
    /\ \A c \in DOMAIN df.cols : Len(df.cols[c]) = Len(Input.index)

\* C16: each smoothing method that returns has added exactly its own pair
\* of smoothed latitude/longitude columns; the raw latitude and longitude
\* columns keep their values, and the row count and row order stay as they
\* were; after both methods both pairs and the raw columns are present.
C16_SmoothingFrame ==
    /\ RawUntouched
    /\ (calls = 1 /\ raised = "none") =>
          DOMAIN df.cols = DOMAIN Input.cols \cup SmoothedPair("savitzky")
    /\ (calls = 2 /\ raised = "none" /\ Len(hist) = 2) =>
          DOMAIN df.cols = DOMAIN Input.cols \cup SmoothedPair("gaussian")
    /\ (calls = 2 /\ raised = "none" /\ Len(hist) = 3) =>
          DOMAIN df.cols = DOMAIN Input.cols \cup SmoothedPair("savitzky")
                              \cup SmoothedPair("gaussian")
    /\ (calls \in {1, 2} /\ raised = "none") =>
          \A c \in DOMAIN df.cols \ DOMAIN Input.cols :
             \A i \in 1..Len(df.index) : df.cols[c][i] \notin {NaN} \cup
                {Input.cols[k][i] : k \in DOMAIN Input.cols}

\* a trace of exactly one window, smoothed by both methods
C16_Witness ==
    /\ calls = 2 /\ raised = "none" /\ Len(hist) = 3
    /\ Len(df.index) = 51
    /\ config.lat_col = "lat" /\ config.lon_col = "GPS_lon"
    /\ DOMAIN df.cols = {"lat", "GPS_lon", "lat_smooth_savitzky",
                         "GPS_lon_smooth_savitzky", "lat_smooth_gaussian",
                         "GPS_lon_smooth_gaussian"}
    /\ df.cols["lat"][51] = Num(51)

(* ================== Projector: selection of a variant ================= *)
\* the frame the Projector was called on
BeforePlanar == IF raised = "none" THEN hist[Len(hist) - 1] ELSE df

\* the smoothing methods whose latitude variant the frame carries
Variants(d) ==
    {m \in {"savitzky", "gaussian"} : ("GPS_lat_smooth_" \o m) \in DOMAIN d.cols}

\* the planar columns of df are the projection of the variant m of d, and
\* m is recorded as the selected method
UsesVariant(d, m) ==
    /\ {"x", "y", "selected_smoothing_method"} \subseteq DOMAIN df.cols
    /\ \A i \in 1..Len(d.index) :
          /\ df.cols["x"][i] = <<"utm", "x", d.cols["GPS_lon_smooth_" \o m][i],
                                 d.cols["GPS_lat_smooth_" \o m][i]>>
          /\ df.cols["y"][i] = <<"utm", "y", d.cols["GPS_lon_smooth_" \o m][i],
                                 d.cols["GPS_lat_smooth_" \o m][i]>>
          /\ df.cols["selected_smoothing_method"][i] = m

\* C17: when the Projector runs on a trace with more than one smoothed
\* variant, it either uses the variant named by the smoothing_method
\* parameter, or without that parameter the single default (the first
\* variant), or it fails with AmbiguousSmoothingSelectionError.
C17_DeterministicSelection ==
    (calls = 3 /\ Cardinality(Variants(BeforePlanar)) > 1) =>
        \/ raised = "AmbiguousSmoothingSelectionError"
        \/ /\ raised = "none"
           /\ UsesVariant(BeforePlanar,
                          IF "smoothing_method" \in DOMAIN config
                          THEN config.smoothing_method ELSE "savitzky")

\* C17 as amended: when the Projector runs on a trace with more than one
\* column named GPS_lat_smooth_<method>, it uses exactly one variant, the
\* one returned by its selection dialog, whatever the configuration says,
\* and records it; it fails, with ValueError and without output, only when
\* the GPS_lon_smooth_<method> column of the selection is absent.
C17_DialogSelection ==
    (calls = 3 /\ Cardinality(Variants(BeforePlanar)) > 1) =>
        /\ raised \in {"none", "ValueError"}
        /\ raised = "none" =>
              \E m \in Variants(BeforePlanar) :
                 /\ UsesVariant(BeforePlanar, m)
                 /\ \A o \in Variants(BeforePlanar) \ {m} :
                       ~UsesVariant(BeforePlanar, o)
        /\ raised = "ValueError" =>
              /\ df = BeforePlanar
              /\ \E m \in Variants(BeforePlanar) :
                    ("GPS_lon_smooth_" \o m) \notin DOMAIN df.cols

\* the configuration names savitzky, the dialog returned gaussian
C17_Witness ==
    /\ calls = 3 /\ raised = "none"
    /\ Variants(BeforePlanar) = {"savitzky", "gaussian"}
    /\ "smoothing_method" \in DOMAIN config
    /\ config.smoothing_method = "savitzky"
    /\ df.cols["selected_smoothing_method"][1] = "gaussian"
    /\ df.cols["x"][1] = <<"utm", "x", <<"gaussian", "GPS_lon", 1>>,
                           <<"gaussian", "GPS_lat", 1>>>>

(* ================ Projector: one source for both columns ============== *)
\* the latitude and longitude columns of a source: the raw columns of the
\* configuration, or the pair a smoothing method made from them
SourceCols(src) ==
    IF src = "raw" THEN [lat |-> config.lat_col, lon |-> config.lon_col]
    ELSE [lat |-> config.lat_col \o "_smooth_" \o src,
          lon |-> config.lon_col \o "_smooth_" \o src]

\* the smoothing methods of which the frame carries a column
SmoothedOn(d) ==
    {m \in {"savitzky", "gaussian"} :
        \/ SourceCols(m).lat \in DOMAIN d.cols
        \/ SourceCols(m).lon \in DOMAIN d.cols}

\* the planar columns of df are the projection of the two columns of src
ProjectedFrom(d, src) ==
    /\ {SourceCols(src).lat, SourceCols(src).lon} \subseteq DOMAIN d.cols
    /\ \A i \in 1..Len(d.index) :
          /\ df.cols["x"][i] = <<"utm", "x", d.cols[SourceCols(src).lon][i],
                                 d.cols[SourceCols(src).lat][i]>>
          /\ df.cols["y"][i] = <<"utm", "y", d.cols[SourceCols(src).lon][i],
                                 d.cols[SourceCols(src).lat][i]>>

\* C18: whenever the Projector returns, the latitude and the longitude it
\* projected are both raw or both from the same smoothing method, and they
\* are the raw ones only if the trace carried no smoothed variant.
C18_NoMixing ==
    (calls = 3 /\ raised = "none") =>
        /\ \E src \in {"raw", "savitzky", "gaussian"} :
              ProjectedFrom(BeforePlanar, src)
        /\ ProjectedFrom(BeforePlanar, "raw") => SmoothedOn(BeforePlanar) = {}

(* ================= Resampler: non-positive min_distance =============== *)
\* C21: every call of the Resampler with min_distance <= 0 fails with
\* DegenerateDistanceError and returns no output.
C21_DegenerateRaises ==
    (calls >= 1 /\ config.min_distance <= 0) =>
        (raised = "DegenerateDistanceError" /\ hist = <<Input>>)

\* 1-based input positions kept for a non-positive min_distance: the first
\* row, and every row with a position if the first row has one
KeptNonPositive ==
    {i \in 1..Len(Input.index) :
        i = 1 \/ (Numeric(Pt(Input, 1)) /\ Numeric(Pt(Input, i)))}

\* C21 as amended: min_distance is not validated. A call with
\* min_distance <= 0 fails only as any other call does (ValueError for a
\* non-empty trace without x or y); otherwise it returns the first row and,
\* if the first row has a position, every later row that has one, in order.
C21_NonPositiveAccepted ==
    (calls >= 1 /\ config.min_distance <= 0) =>
        /\ raised \in {"none", "ValueError"}
        /\ raised = "ValueError" <=>
              /\ Len(Input.index) > 0
              /\ ~({"x", "y"} \subseteq DOMAIN Input.cols)
        /\ (raised = "none" /\ Len(Input.index) > 0) =>
              /\ Len(Output.index) = Cardinality(KeptNonPositive)
              /\ \A i \in KeptNonPositive :
                    LET k == Cardinality({j \in KeptNonPositive : j <= i})
                    IN  /\ Pt(Output, k) = Pt(Input, i)
                        /\ Output.cols["DatumZeit"][k] = Input.cols["DatumZeit"][i]

\* min_distance = -1: three rows, the second without a position, the third
\* at the position of the first; the first and the third are returned
C21_Witness ==
    /\ calls = 1 /\ raised = "none" /\ config.min_distance = -1
    /\ Len(Input.index) = 3
    /\ Numeric(Pt(Input, 1)) /\ ~Numeric(Pt(Input, 2))
    /\ Pt(Input, 3) = Pt(Input, 1)
    /\ Len(Output.index) = 2
    /\ Output.cols["DatumZeit"] = <<"0", "2">>

(* =================== Smoothing: window longer than trace ============== *)
\* C22: on a trace of fewer than 51 samples data_smooth_gps_savitzky fails
\* and adds neither the smoothed latitude nor the smoothed longitude column;
\* the error is the window error (the ValueError of the filter) whenever the
\* trace has a latitude signal to filter. A trace of 51 or more samples with
\* both raw columns is smoothed.
C22_WindowError ==
    /\ (calls = 1 /\ Len(Input.index) < 51) =>
          /\ raised \in {"ValueError", "KeyError"}
          /\ config.lat_col \in DOMAIN Input.cols => raised = "ValueError"
          /\ df = Input
          /\ hist = <<Input>>
          /\ (config.lat_col \o "_smooth_savitzky") \notin DOMAIN df.cols
          /\ (config.lon_col \o "_smooth_savitzky") \notin DOMAIN df.cols
    /\ (calls = 1 /\ Len(Input.index) >= 51
          /\ {config.lat_col, config.lon_col} \subseteq DOMAIN Input.cols) =>
          raised = "none"

\* a trace one sample short of the window, both raw columns present
C22_Witness ==
    /\ calls = 1 /\ raised = "ValueError"
    /\ Len(Input.index) = 50
    /\ DOMAIN Input.cols = {"GPS_lat", "GPS_lon"}
    /\ DOMAIN df.cols = {"GPS_lat", "GPS_lon"}

(* ============== Temporal Differencer: unparseable timestamp =========== *)
\* the texts that denote a time
TimeTexts == {"0", "1", "2", "3", "4", "5", "6", "7", "8", "9"}

\* C23: if any value of the timestamp column is unparseable,
\* parse_time_and_compute_dt fails with the parse error (ValueError),
\* returns nothing, and the caller's trace stays as it was: the timestamp
\* column is not converted and no dt column is added. If every value is
\* parseable the call returns.
C23_ParseError ==
    (calls = 1 /\ "DatumZeit" \in DOMAIN Input.cols) =>
        IF \E i \in 1..Len(Input.index) :
              Input.cols["DatumZeit"][i] \notin TimeTexts
        THEN /\ raised = "ValueError"
             /\ hist = <<Input>>
             /\ df = Input
             /\ "dt" \notin DOMAIN df.cols
        ELSE raised = "none"

\* three timestamps, the last one unparseable
C23_Witness ==
    /\ calls = 1 /\ raised = "ValueError"
    /\ Len(Input.index) = 3
    /\ Input.cols["DatumZeit"] = <<"0", "1", "n/a">>
    /\ df.cols["DatumZeit"] = <<"0", "1", "n/a">>
    /\ "dt" \notin DOMAIN df.cols

(* ==================== unsorted timestamps downstream ================== *)
\* seconds denoted by a timestamp text
SecondsOf(text) ==
    CASE text = "0" -> 0 [] text = "1" -> 1 [] text = "2" -> 2
      [] text = "3" -> 3 [] text = "4" -> 4 [] text = "5" -> 5
      [] text = "6" -> 6 [] text = "7" -> 7 [] text = "8" -> 8
      [] text = "9" -> 9

\* C24: the Temporal Differencer keeps the rows in the order it got them;
\* where timestamp[i] < timestamp[i-1] the computed dt[i] is that negative
\* difference; the yaw-rate computation on such a trace raises nothing and,
\* wherever the wrapped heading difference of row i is defined, stores a
\* finite yaw rate equal to that difference divided by dt[i], so of the
\* opposite sign (where the difference is undefined the yaw rate is missing).
C24_UnsortedInput ==
    /\ (calls >= 2 /\ raised = "none") =>
          LET given  == hist[2]
              parsed == hist[3]
          IN  /\ parsed.index = given.index
              /\ parsed.cols["x"] = given.cols["x"]
              /\ parsed.cols["y"] = given.cols["y"]
              /\ \A i \in 1..Len(given.index) :
                    parsed.cols["DatumZeit"][i] =
                       <<SecondsOf(given.cols["DatumZeit"][i])>>
              /\ \A i \in 2..Len(given.index) :
                    parsed.cols["dt"][i] =
                       <<SecondsOf(given.cols["DatumZeit"][i])
                         - SecondsOf(given.cols["DatumZeit"][i - 1])>>
    /\ calls = 4 =>
          /\ raised = "none"
          /\ \A i \in 2..Len(df.index) :
                LET h  == df.cols["heading_deg"]
                    dt == df.cols["dt"][i]
                    yr == df.cols["yaw_rate_deg_s"][i]
                IN  (dt # <<>> /\ dt[1] < 0) =>
                       IF h[i] # <<>> /\ h[i - 1] # <<>>
                       THEN /\ Len(yr) = 2 /\ yr[2] > 0
                            /\ (yr[1] * dt[1]) % yr[2] = 0
                            /\ LET w == (yr[1] * dt[1]) \div yr[2]
                               IN  /\ -180000 <= w /\ w < 180000
                                   /\ (w - (h[i][1] - h[i - 1][1])) % 360000 = 0
                                   /\ w > 0 => yr[1] < 0
                                   /\ w < 0 => yr[1] > 0
                                   /\ w = 0 => yr[1] = 0
                       ELSE yr = <<>>

\* a left turn of 90 degrees between samples stamped 2 s and 1 s
C24_Witness ==
    /\ calls = 4 /\ raised = "none"
    /\ hist[2].cols["DatumZeit"] = <<"0", "2", "1">>
    /\ df.cols["dt"] = <<<<>>, <<2>>, <<-1>>>>
    /\ df.cols["heading_deg"] = <<<<>>, <<0>>, <<90000>>>>
    /\ df.cols["yaw_rate_deg_s"][3] = <<-90000, 1>>

(* ====================== column names from config ====================== *)
\* C25: the Projector reads and writes only columns named by the
\* configuration: whenever it returns on a trace carrying a smoothed pair
\* made from the configured lat_col/lon_col it has projected such a pair,
\* and the planar coordinates it adds are the columns x_col and y_col of the
\* configuration, which the Resampler and the heading stage read.
C25_LateBound ==
    (calls = 3 /\ raised = "none") =>
        /\ SmoothedOn(BeforePlanar) # {} =>
              \E m \in SmoothedOn(BeforePlanar) : ProjectedFrom(BeforePlanar, m)
        /\ {config.x_col, config.y_col} \subseteq DOMAIN df.cols
        /\ (DOMAIN df.cols \ DOMAIN BeforePlanar.cols) \subseteq
              {config.x_col, config.y_col, "selected_smoothing_method"}

(* ============================ main: stages ============================ *)
\* the suffixes main appends, in the order of the stages in its loop body
SuffixOrder == <<"savitzky", "gaussian", "planar", "dist", "time",
                 "heading", "yawRate">>

SuffixPos(x) == CHOOSE k \in 1..7 : SuffixOrder[k] = x

\* the frame b has the rows of the frame a, in their order: same labels,
\* and every column of a is in b with its cells; the columns a stage may
\* replace (timestamp, planar coordinates) have as many cells as before
KeepsRows(a, b) ==
    /\ b.index = a.index
    /\ \A c \in DOMAIN a.cols :
          /\ c \in DOMAIN b.cols
          /\ Len(b.cols[c]) = Len(a.cols[c])
          /\ c \notin {"DatumZeit", "x", "y"} => b.cols[c] = a.cols[c]
    /\ \A c \in DOMAIN b.cols : Len(b.cols[c]) = Len(a.index)

StepSuffix ==
    [smooth_gps_data_savitzky |-> "savitzky",
     smooth_gps_data_gaussian |-> "gaussian",
     convert_to_planar |-> "planar",
     filter_with_distances |-> "dist",
     parse_time |-> "time",
     compute_heading_from_xy |-> "heading",
     compute_yaw_rate_from_heading |-> "yawRate"]

\* the columns a stage adds
StageColumns ==
    [savitzky |-> {"GPS_lat_smooth_savitzky", "GPS_lon_smooth_savitzky"},
     gaussian |-> {"GPS_lat_smooth_gaussian", "GPS_lon_smooth_gaussian"},
     planar |-> {"selected_smoothing_method"},
     dist |-> {"min_distance"},
     time |-> {"dt"},
     heading |-> {"heading_deg"},
     yawRate |-> {"yaw_rate_deg_s"}]

\* C27: for every step name of the selection window that config carries,
\* a stage whose flag is false is skipped (its suffix is not appended and
\* its columns are not added), and a stage whose flag is true has executed
\* once the run got past it.
C27_FlagsHonoured ==
    \A f \in DOMAIN StepSuffix :
        f \in DOMAIN config =>
            IF config[f]
            THEN (raised = "none" /\ calls >= SuffixPos(StepSuffix[f])) =>
                    \E j \in 1..Len(processed_suffixes) :
                       processed_suffixes[j] = StepSuffix[f]
            ELSE /\ \A j \in 1..Len(processed_suffixes) :
                       processed_suffixes[j] # StepSuffix[f]
                 /\ StageColumns[StepSuffix[f]] \cap DOMAIN df.cols = {}

(* ================= dt is taken between retained samples =============== *)
\* seconds of the 0-based input row r
InputSeconds(r) == SecondsOf(Input.cols["DatumZeit"][r + 1])

\* sum of the raw inter-sample intervals of the input rows a+1 .. b
RECURSIVE RawIntervals(_, _)
RawIntervals(a, b) ==
    IF b <= a THEN 0
    ELSE (InputSeconds(b) - InputSeconds(b - 1)) + RawIntervals(a, b - 1)

\* C28: when the Resampler and then the Temporal Differencer have run, dt at
\* output row i >= 1 is the timestamp of retained sample i minus that of
\* retained sample i-1, which is the sum of the raw intervals across the
\* rows dropped in between; dt at row 0 is missing.
C28_DtBetweenRetained ==
    (calls >= 2 /\ raised = "none" /\ Len(Input.index) > 0) =>
        LET timed == hist[3]
        IN  /\ Len(timed.index) = Len(retained_indices)
            /\ timed.cols["dt"][1] = <<>>
            /\ \A k \in 2..Len(retained_indices) :
                  /\ timed.cols["dt"][k] =
                        <<InputSeconds(retained_indices[k])
                          - InputSeconds(retained_indices[k - 1])>>
                  /\ timed.cols["dt"][k] =
                        <<RawIntervals(retained_indices[k - 1],
                                       retained_indices[k])>>

\* three samples stamped 0, 1, 2 s; the middle one is dropped, so dt is 2 s
\* and not the 1 s to the dropped sample
C28_Witness ==
    /\ calls >= 2 /\ raised = "none"
    /\ Input.cols["DatumZeit"] = <<"0", "1", "2">>
    /\ retained_indices = <<0, 2>>
    /\ hist[3].cols["dt"] = <<<<>>, <<2>>>>

(* ================= Resampler: a greedy, streaming filter ============== *)
\* C29: the separation the Resampler guarantees is the one between
\* consecutive retained samples: two retained samples closer than
\* min_distance are never consecutive in the output.  Such pairs exist (the
\* witness is a path that doubles back), so the output is not a set of points
\* that are pairwise min_distance apart.
C29_GreedyOnly ==
    (Returned /\ config.min_distance > 0) =>
        \A j \in 1..Len(Output.index) : \A k \in (j + 1)..Len(Output.index) :
            ( /\ Numeric(Pt(Output, j)) /\ Numeric(Pt(Output, k))
              /\ SqDist(Pt(Output, j), Pt(Output, k))
                    < config.min_distance * config.min_distance )
            => k - j >= 2

\* out and back: the first and the third retained sample are at one position
C29_Witness ==
    /\ Returned /\ config.min_distance = 2
    /\ Len(Input.index) = 3 /\ Len(Output.index) = 3
    /\ Pt(Output, 1) = <<<<0>>, <<0>>>>
    /\ Pt(Output, 2) = <<<<2>>, <<0>>>>
    /\ Pt(Output, 3) = <<<<0>>, <<0>>>>
    /\ SqDist(Pt(Output, 1), Pt(Output, 3)) < 4

(* ========================= main: completion =========================== *)
\* every step of the selection window is enabled
AllEnabled == \A f \in StepNames : f \in DOMAIN config => config[f]

\* C30: for a subset of at least 51 rows with valid timestamps and all
\* required columns, and with every stage enabled, main calls the heading
\* and the yaw-rate stage in a form their definitions accept, no stage call
\* raises, and the run reaches the save step with a trace carrying x, y, dt,
\* heading_deg and yaw_rate_deg_s.
C30_Completion ==
    (AllEnabled /\ Len(Input.index) >= 51) =>
        /\ raised = "none"
        /\ calls >= 6 =>
              {"x_col", "y_col", "heading_col"} \subseteq
                 {HeadingParams[i] : i \in 2..Len(HeadingParams)}
        /\ calls >= 7 =>
              {"heading_col", "dt_col", "yaw_rate_col"} \subseteq
                 {YawRateParams[i] : i \in 2..Len(YawRateParams)}
        /\ calls = 8 =>
              /\ saved # <<>>
              /\ {"x", "y", "dt", "heading_deg", "yaw_rate_deg_s"}
                    \subseteq DOMAIN saved[1].df.cols

=============================================================================
